---- MODULE Spec2Model ----
(***************************************************************************)
(* GitTool.cpp as a state machine.  One action per library call or report  *)
(* of main, open_repo, findAllOnMaster, dumpDiff and create_initial_commit.*)
(* The libgit2 calls are modelled by their documented contract: a call     *)
(* returns a negative status and sets the thread's last error, or returns  *)
(* a non-negative status and hands out a fresh handle.  Scope-exit guards  *)
(* (BOOST_SCOPE_EXIT_ALL) are kept on a stack; the step that leaves a      *)
(* scope, by reaching its end or by throwing, runs the scope's guards,     *)
(* last registered first.                                                  *)
(***************************************************************************)
EXTENDS Integers, Sequences, FiniteSets, TLC

\* Bounds of the checked instances.
MaxCommits == 3
MaxParents == 2

VARIABLES
    entry,        \* operation under execution: "main" or "create_initial_commit"
    parents,      \* object store: commit id -> sequence of parent commit ids
    tree,         \* object store: commit id -> lines of f.txt in the commit's tree
    master,       \* ref store: commit id the branch resolves to, 0 when unborn
    pc,           \* position in the code
    thrown,       \* an exception is propagating
    caught,       \* the handler of main ran
    guards,       \* stack of registered scope-exit guards
    loc,          \* local pointer variables, 0 is NULL
    handles,      \* handle id -> what the library handed out, and its free count
    trace         \* history: library calls with their status, and stdout lines

vars == <<entry, parents, tree, master, pc, thrown, caught, guards, loc, handles, trace>>

store == <<parents, tree, master>>

----------------------------------------------------------------------------
\* Inputs

Lines == {"x", "y"}
LineOrder == <<"x", "y">>
TreeContents == {{"x"}, {"y"}}

RECURSIVE SeqsUpTo(_, _)
SeqsUpTo(S, n) ==
    IF n = 0 THEN {<<>>}
    ELSE LET shorter == SeqsUpTo(S, n - 1)
         IN  shorter \cup {Append(s, x) : s \in {t \in shorter : Len(t) = n - 1}, x \in S}

Distinct(s) == \A i, j \in 1..Len(s) : i # j => s[i] # s[j]

\* Parent links point to commits that were already in the store (acyclic).
ParentChoices(c) == {s \in SeqsUpTo(1..(c - 1), MaxParents) : Distinct(s)}

\* Commits are numbered in the order they were created.  The branch is unborn
\* or names the newest commit; older commits may or may not be its ancestors.
BranchTips == {0, MaxCommits}

Scopes == {"main", "findAllOnMaster", "loop", "dumpDiff", "create_initial_commit"}

NullLocals == [repo |-> 0, obj |-> 0, commit |-> 0, parentCommit |-> 0,
               commit0 |-> 0, commit1 |-> 0,
               commit0_tree |-> 0, commit1_tree |-> 0, diff |-> 0,
               sig |-> 0, index |-> 0, tree |-> 0]

----------------------------------------------------------------------------
\* History entries

\* A library call: its arguments, the status it returned, the handle it handed out.
Call(fn, arg, status, ret) ==
    [k |-> "call", fn |-> fn, arg |-> arg, status |-> status, ret |-> ret]
\* A line written to std::cout.
Out(fn, arg) == [k |-> "out", fn |-> fn, arg |-> arg, status |-> 0, ret |-> 0]
\* An exception thrown by boost::filesystem.
FsThrow == [k |-> "throw", fn |-> "boost::filesystem", arg |-> <<>>, status |-> 0, ret |-> 0]

\* What the library hands out; op is the operation that acquired it.
Handle(op, kind, of, lines) ==
    [op |-> op, kind |-> kind, of |-> of, frees |-> 0, lines |-> lines]
NextHandle == Len(handles) + 1

Guard(scope, fn, byRef, var, val) ==
    [scope |-> scope, fn |-> fn, byRef |-> byRef, var |-> var, val |-> val]

----------------------------------------------------------------------------
\* Error helper

logOnGitError(error, message) ==
    IF error < 0 THEN <<Out("ERROR", message)>> ELSE <<>>

\* Variant: any non-zero status throws.
throwOnGitErrorNonZero(error) == error # 0
\* TRUE when throwOnGitError(error, message) throws.
throwOnGitError(error) == error < 0

\* Output of throwOnGitError: it logs only on the path that throws.
ThrowLog(error, message) ==
    IF throwOnGitError(error) THEN logOnGitError(error, message) ELSE <<>>

----------------------------------------------------------------------------
\* Scope exit

\* The handle a guard frees: a guard capturing by reference reads the variable
\* when it runs, a guard capturing by value holds the value it was built with.
GuardTarget(g, l) == IF g.byRef THEN l[g.var] ELSE g.val

Released(hs, h) == IF h = 0 THEN hs
                   ELSE [hs EXCEPT ![h].frees = hs[h].frees + 1]

\* Leaving the scopes in `scopes` with guard stack gs, handle table hs, history
\* tr and locals l: the guards of those scopes run, last registered first.  sd
\* is the status git_libgit2_shutdown returns if its guard is among them; its
\* failure is logged, not thrown.
RECURSIVE RunGuards(_, _, _, _, _, _)
RunGuards(gs, hs, tr, l, scopes, sd) ==
    IF gs = <<>> THEN [guards |-> gs, handles |-> hs, trace |-> tr]
    ELSE LET g == gs[Len(gs)]
             rest == SubSeq(gs, 1, Len(gs) - 1)
         IN  IF g.scope \notin scopes
                 THEN [guards |-> gs, handles |-> hs, trace |-> tr]
             ELSE IF g.fn = "git_libgit2_shutdown"
                 THEN RunGuards(rest, hs,
                          Append(tr, Call("git_libgit2_shutdown", <<>>, sd, 0))
                              \o logOnGitError(sd, "Git shutdown failed."),
                          l, scopes, sd)
             ELSE RunGuards(rest, Released(hs, GuardTarget(g, l)),
                      Append(tr, Call(g.fn, <<GuardTarget(g, l)>>, 0, 0)),
                      l, scopes, sd)

\* The statuses git_libgit2_shutdown may return when the scopes are left.
ShutdownStatus(gs, scopes) ==
    IF \E n \in 1..Len(gs) : gs[n].fn = "git_libgit2_shutdown" /\ gs[n].scope \in scopes
    THEN {-1, 0} ELSE {0}

\* A scope is left normally, control continues at next.
Leave(gs, hs, tr, l, scopes, next) ==
    \E sd \in ShutdownStatus(gs, scopes) :
        LET r == RunGuards(gs, hs, tr, l, scopes, sd)
        IN  /\ guards' = r.guards
            /\ handles' = r.handles
            /\ trace' = r.trace
            /\ loc' = l
            /\ pc' = next
            /\ UNCHANGED thrown

\* An exception leaves every scope up to the handler of main, or up to the
\* caller of the operation.
Throw(gs, hs, tr, l) ==
    \E sd \in ShutdownStatus(gs, Scopes) :
        LET r == RunGuards(gs, hs, tr, l, Scopes, sd)
        IN  /\ guards' = r.guards
            /\ handles' = r.handles
            /\ trace' = r.trace
            /\ loc' = l
            /\ pc' = IF entry = "main" THEN "catch" ELSE "exit"
            /\ thrown' = TRUE

\* The statement succeeded and control continues inside the scope.
Proceed(gs, hs, tr, l, next) ==
    /\ guards' = gs
    /\ handles' = hs
    /\ trace' = tr
    /\ loc' = l
    /\ pc' = next
    /\ UNCHANGED thrown

----------------------------------------------------------------------------
\* main

ShutdownGuard == Guard("main", "git_libgit2_shutdown", FALSE, "", 0)

\* Variant: the shutdown guard is registered before the status is checked.
LibInitGuardBeforeCheck ==
    /\ pc = "main_init"
    /\ \E error \in {-1, 1} :
        LET tr == Append(trace, Call("git_libgit2_init", <<>>, error, 0))
                      \o ThrowLog(error, "Git initialization failed.")
        IN  IF throwOnGitError(error)
            THEN Throw(Append(guards, ShutdownGuard), handles, tr, loc)
            ELSE Proceed(Append(guards, ShutdownGuard), handles, tr, loc, "main_path")
    /\ UNCHANGED <<entry, store, caught>>

\* git_libgit2_init returns the number of initializations, or an error code.
LibInit ==
    /\ pc = "main_init"
    /\ \E error \in {-1, 1} :
        LET tr == Append(trace, Call("git_libgit2_init", <<>>, error, 0))
                      \o ThrowLog(error, "Git initialization failed.")
        IN  IF throwOnGitError(error)
            THEN Throw(guards, handles, tr, loc)
            ELSE Proceed(Append(guards, ShutdownGuard), handles, tr, loc, "main_path")
    /\ UNCHANGED <<entry, store, caught>>

\* current_path / create_directories: boost::filesystem may throw.
MakePath ==
    /\ pc = "main_path"
    /\ \E ok \in BOOLEAN :
        IF ok THEN Proceed(guards, handles, trace, loc, "open_repo")
        ELSE Throw(guards, handles, Append(trace, FsThrow), loc)
    /\ UNCHANGED <<entry, store, caught>>

\* open_repo, and the guard main registers for the repository it returns.
OpenRepo ==
    /\ pc = "open_repo"
    /\ \E error \in {-1, 0} :
        LET tr == Append(trace, Call("git_repository_open", <<>>, error,
                                     IF error < 0 THEN 0 ELSE NextHandle))
                      \o ThrowLog(error, "Could not open repository.")
        IN  IF throwOnGitError(error)
            THEN Throw(guards, handles, tr, loc)
            ELSE Proceed(
                   Append(guards,
                       Guard("main", "git_repository_free", FALSE, "repo", NextHandle)),
                   Append(handles, Handle("main", "repository", 0, <<>>)),
                   Append(tr, Out("Opened Git repository in: ", <<>>)),
                   [loc EXCEPT !.repo = NextHandle],
                   "revparse")
    /\ UNCHANGED <<entry, store, caught>>

\* catch (...)
Catch ==
    /\ pc = "catch"
    /\ thrown
    /\ thrown' = FALSE
    /\ caught' = TRUE
    /\ pc' = "exit"
    /\ trace' = Append(trace, Out("Exception caught: ", <<>>))
    /\ UNCHANGED <<entry, store, guards, loc, handles>>

----------------------------------------------------------------------------
\* Library: tree-to-tree diff of the one file f.txt, as patch lines

DiffLine(origin, content) == [origin |-> origin, content |-> content]

RECURSIVE DiffBody(_, _, _)
DiffBody(old, new, i) ==
    IF i > Len(LineOrder) THEN <<>>
    ELSE LET l == LineOrder[i]
             here == IF l \in old /\ l \notin new
                         THEN <<DiffLine("-", <<l, "\n">>)>>
                     ELSE IF l \in new /\ l \notin old
                         THEN <<DiffLine("+", <<l, "\n">>)>>
                     ELSE IF l \in new /\ l \in old
                         THEN <<DiffLine(" ", <<l, "\n">>)>>
                     ELSE <<>>
         IN  here \o DiffBody(old, new, i + 1)

git_diff_tree_to_tree(old_tree, new_tree) ==
    IF old_tree = new_tree THEN <<>>
    ELSE <<DiffLine("F", <<"diff --git a/f.txt b/f.txt", "\n">>),
           DiffLine("H", <<"@@", "\n">>)>> \o DiffBody(old_tree, new_tree, 1)

\* The tree a tree handle stands for.
TreeOf(h) == IF handles[h].of = 0 THEN {} ELSE tree[handles[h].of]

----------------------------------------------------------------------------
\* print_cb and dumpDiff

\* std::string sline(line->content, line->content + line->content_len);
\* std::cout << sline << std::endl;
print_cb(line) == Out("print_cb", line.content)

PrintAll(lines, n) == [i \in 1..n |-> print_cb(lines[i])]

\* Variant: the commits are passed in the other order.
DumpDiffArgsSwapped == <<loc.commit, loc.parentCommit>>
\* dumpDiff(repo, parentCommit, commit): commit0 is the parent, commit1 the commit.
DumpDiffArgs == <<loc.parentCommit, loc.commit>>

\* Variant: the trees are passed in the other order.
DiffTreeArgsReversed == <<loc.commit1_tree, loc.commit0_tree>>
\* git_diff_tree_to_tree(&diff, repo, commit0_tree, commit1_tree, NULL): old, new
DiffTreeArgs == <<loc.commit0_tree, loc.commit1_tree>>

DiffTree0 ==
    /\ pc = "diff_tree0"
    /\ \E error \in {-1, 0} :
        LET commit0 == DumpDiffArgs[1]
            commit1 == DumpDiffArgs[2]
            l == [loc EXCEPT !.commit0 = commit0, !.commit1 = commit1]
            tr == Append(trace, Call("git_commit_tree", <<commit0>>, error,
                                     IF error < 0 THEN 0 ELSE NextHandle))
                      \o ThrowLog(error, "Could not create commit0 tree.")
        IN  IF throwOnGitError(error)
            THEN Throw(guards, handles, tr, l)
            ELSE Proceed(
                   Append(guards,
                       Guard("dumpDiff", "git_tree_free", FALSE, "commit0_tree", NextHandle)),
                   Append(handles, Handle("dumpDiff", "tree", handles[commit0].of, <<>>)),
                   tr,
                   [l EXCEPT !.commit0_tree = NextHandle],
                   "diff_tree1")
    /\ UNCHANGED <<entry, store, caught>>

DiffTree1 ==
    /\ pc = "diff_tree1"
    /\ \E error \in {-1, 0} :
        LET tr == Append(trace, Call("git_commit_tree", <<loc.commit1>>, error,
                                     IF error < 0 THEN 0 ELSE NextHandle))
                      \o ThrowLog(error, "Could not create commit1 tree.")
        IN  IF throwOnGitError(error)
            THEN Throw(guards, handles, tr, loc)
            ELSE Proceed(
                   Append(guards,
                       Guard("dumpDiff", "git_tree_free", FALSE, "commit1_tree", NextHandle)),
                   Append(handles, Handle("dumpDiff", "tree", handles[loc.commit1].of, <<>>)),
                   tr,
                   [loc EXCEPT !.commit1_tree = NextHandle],
                   "diff_make")
    /\ UNCHANGED <<entry, store, caught>>

DiffMake ==
    /\ pc = "diff_make"
    /\ \E error \in {-1, 0} :
        LET tr == Append(trace, Call("git_diff_tree_to_tree", DiffTreeArgs, error,
                                     IF error < 0 THEN 0 ELSE NextHandle))
                      \o ThrowLog(error, "Could not create diff.")
        IN  IF throwOnGitError(error)
            THEN Throw(guards, handles, tr, loc)
            ELSE Proceed(
                   Append(guards,
                       Guard("dumpDiff", "git_diff_free", FALSE, "diff", NextHandle)),
                   Append(handles,
                       Handle("dumpDiff", "diff", 0,
                              git_diff_tree_to_tree(TreeOf(DiffTreeArgs[1]),
                                                    TreeOf(DiffTreeArgs[2])))),
                   tr,
                   [loc EXCEPT !.diff = NextHandle],
                   "diff_print")
    /\ UNCHANGED <<entry, store, caught>>

\* git_diff_print calls print_cb once per line; print_cb always returns 0, so
\* a failure is the library's own and may come after any number of lines.
\* On success dumpDiff returns and its guards run.
DiffPrint ==
    /\ pc = "diff_print"
    /\ LET lines == handles[loc.diff].lines IN
       \E error \in {-1, 0} :
       \E n \in 0..Len(lines) :
        /\ error = 0 => n = Len(lines)
        /\ LET tr == trace \o PrintAll(lines, n)
                         \o <<Call("git_diff_print", <<loc.diff>>, error, 0)>>
                         \o ThrowLog(error, "Could not print diff.")
           IN  IF throwOnGitError(error)
               THEN Throw(guards, handles, tr, loc)
               ELSE Leave(guards, handles, tr, loc, {"dumpDiff"}, "swap")
    /\ UNCHANGED <<entry, store, caught>>

----------------------------------------------------------------------------
\* findAllOnMaster

git_commit_parentcount(c) == Len(parents[c])

\* Variant: the last parent instead of parent 0.
LastParentId(c) == parents[c][Len(parents[c])]
\* git_commit_parent_id(commit, 0)
FirstParentId(c) == parents[c][1]

\* Variants: commit = parentCommit without the swap; commit reset to NULL.
SwapAssign(l) == [l EXCEPT !.commit = l.parentCommit]
SwapNull(l) == [l EXCEPT !.commit = 0, !.parentCommit = l.commit]
\* std::swap(commit, parentCommit)
Swap(l) == [l EXCEPT !.commit = l.parentCommit, !.parentCommit = l.commit]

\* "master" resolves only when the branch exists.
Revparse ==
    /\ pc = "revparse"
    /\ \E error \in (IF master = 0 THEN {-1} ELSE {-1, 0}) :
        LET tr == Append(trace, Call("git_revparse_single", <<>>, error,
                                     IF error < 0 THEN 0 ELSE NextHandle))
                      \o ThrowLog(error, "Revparse failed.")
        IN  IF throwOnGitError(error)
            THEN Throw(guards, handles, tr, loc)
            ELSE Proceed(
                   Append(guards,
                       Guard("findAllOnMaster", "git_object_free", FALSE, "obj", NextHandle)),
                   Append(handles, Handle("findAllOnMaster", "object", master, <<>>)),
                   tr,
                   [loc EXCEPT !.obj = NextHandle],
                   "commit_lookup")
    /\ UNCHANGED <<entry, store, caught>>

CommitLookup ==
    /\ pc = "commit_lookup"
    /\ \E error \in {-1, 0} :
        LET id == handles[loc.obj].of
            tr == Append(trace, Call("git_commit_lookup", <<id>>, error,
                                     IF error < 0 THEN 0 ELSE NextHandle))
                      \o ThrowLog(error, "Initial commit lookup failed.")
        IN  IF throwOnGitError(error)
            THEN Throw(guards, handles, tr, loc)
            ELSE Proceed(
                   Append(guards,
                       Guard("findAllOnMaster", "git_commit_free", TRUE, "commit", NextHandle)),
                   Append(handles, Handle("findAllOnMaster", "commit", id, <<>>)),
                   tr,
                   [loc EXCEPT !.commit = NextHandle],
                   "loop")
    /\ UNCHANGED <<entry, store, caught>>

\* if (parentCount == 0) break;
LoopBreaks(parentCount) == parentCount = 0

\* while (commit) { report the commit; break at a root; ...
LoopHead ==
    /\ pc = "loop"
    /\ IF loc.commit = 0
       THEN Proceed(guards, handles, trace, loc, "done")
       ELSE LET c == handles[loc.commit].of
                parentCount == git_commit_parentcount(c)
                tr == Append(trace, Out("Commit", <<c, parentCount>>))
            IN  IF LoopBreaks(parentCount)
                THEN Proceed(guards, handles, tr, loc, "done")
                ELSE Proceed(guards, handles, tr, loc, "parent_lookup")
    /\ UNCHANGED <<entry, store, caught>>

ParentLookup ==
    /\ pc = "parent_lookup"
    /\ \E error \in {-1, 0} :
        LET firstParentId == FirstParentId(handles[loc.commit].of)
            tr == Append(trace, Call("git_commit_lookup", <<firstParentId>>, error,
                                     IF error < 0 THEN 0 ELSE NextHandle))
                      \o ThrowLog(error, "Parent commit lookup failed.")
        IN  IF throwOnGitError(error)
            THEN Throw(guards, handles, tr, loc)
            ELSE Proceed(
                   Append(guards,
                       Guard("loop", "git_commit_free", TRUE, "parentCommit", NextHandle)),
                   Append(handles, Handle("findAllOnMaster", "commit", firstParentId, <<>>)),
                   tr,
                   [loc EXCEPT !.parentCommit = NextHandle],
                   "diff_tree0")
    /\ UNCHANGED <<entry, store, caught>>

\* std::swap, then the end of the loop body runs the body's guard.
SwapCommits ==
    /\ pc = "swap"
    /\ Leave(guards, handles, trace, Swap(loc), {"loop"}, "loop")
    /\ UNCHANGED <<entry, store, caught>>

\* "Done.", then the function returns and main's try block ends.
ReportDone ==
    /\ pc = "done"
    /\ Leave(guards, handles, Append(trace, Out("Done.", <<>>)), loc,
             {"findAllOnMaster", "main"}, "exit")
    /\ UNCHANGED <<entry, store, caught>>

----------------------------------------------------------------------------
\* create_initial_commit

SignatureDefault ==
    /\ pc = "cic_sig"
    /\ \E error \in {-1, 0} :
        LET tr == Append(trace, Call("git_signature_default", <<>>, error,
                                     IF error < 0 THEN 0 ELSE NextHandle))
                      \o ThrowLog(error, "Unable to create a commit signature.")
        IN  IF throwOnGitError(error)
            THEN Throw(guards, handles, tr, loc)
            ELSE Proceed(
                   Append(guards,
                       Guard("create_initial_commit", "git_signature_free", FALSE,
                             "sig", NextHandle)),
                   Append(handles, Handle("create_initial_commit", "signature", 0, <<>>)),
                   tr,
                   [loc EXCEPT !.sig = NextHandle],
                   "cic_index")
    /\ UNCHANGED <<entry, store, caught>>

RepositoryIndex ==
    /\ pc = "cic_index"
    /\ \E error \in {-1, 0} :
        LET tr == Append(trace, Call("git_repository_index", <<>>, error,
                                     IF error < 0 THEN 0 ELSE NextHandle))
                      \o ThrowLog(error, "Could not open repository index.")
        IN  IF throwOnGitError(error)
            THEN Throw(guards, handles, tr, loc)
            ELSE Proceed(
                   Append(guards,
                       Guard("create_initial_commit", "git_index_free", FALSE,
                             "index", NextHandle)),
                   Append(handles, Handle("create_initial_commit", "index", 0, <<>>)),
                   tr,
                   [loc EXCEPT !.index = NextHandle],
                   "cic_write_tree")
    /\ UNCHANGED <<entry, store, caught>>

\* The guard registered after the tree is written frees the index again.
IndexWriteTree ==
    /\ pc = "cic_write_tree"
    /\ \E error \in {-1, 0} :
        LET tr == Append(trace, Call("git_index_write_tree", <<loc.index>>, error, 0))
                      \o ThrowLog(error, "Unable to write initial tree from index.")
        IN  IF throwOnGitError(error)
            THEN Throw(guards, handles, tr, loc)
            ELSE Proceed(
                   Append(guards,
                       Guard("create_initial_commit", "git_index_free", FALSE,
                             "index", loc.index)),
                   handles, tr, loc, "cic_tree_lookup")
    /\ UNCHANGED <<entry, store, caught>>

TreeLookup ==
    /\ pc = "cic_tree_lookup"
    /\ \E error \in {-1, 0} :
        LET tr == Append(trace, Call("git_tree_lookup", <<>>, error,
                                     IF error < 0 THEN 0 ELSE NextHandle))
                      \o ThrowLog(error, "Could not look up initial tree.")
        IN  IF throwOnGitError(error)
            THEN Throw(guards, handles, tr, loc)
            ELSE Proceed(
                   Append(guards,
                       Guard("create_initial_commit", "git_tree_free", FALSE,
                             "tree", NextHandle)),
                   Append(handles, Handle("create_initial_commit", "tree", 0, <<>>)),
                   tr,
                   [loc EXCEPT !.tree = NextHandle],
                   "cic_commit")
    /\ UNCHANGED <<entry, store, caught>>

\* Variant: the ref moves whatever the status.
CommitCreateEarlyRef(error) ==
    /\ parents' = Append(parents, <<>>)
    /\ tree' = Append(tree, {})
    /\ master' = Len(parents) + 1
\* git_commit_create(..., "HEAD", ..., tree, 0, NULL): on success the new commit
\* has no parents and the branch HEAD names points at it; on failure the ref is
\* as it was.
CommitCreateStore(error) ==
    IF error < 0 THEN UNCHANGED store
    ELSE /\ parents' = Append(parents, <<>>)
         /\ tree' = Append(tree, {})
         /\ master' = Len(parents) + 1

CommitCreate ==
    /\ pc = "cic_commit"
    /\ \E error \in {-1, 0} :
        LET tr == Append(trace, Call("git_commit_create", <<loc.tree>>, error, 0))
                      \o ThrowLog(error, "Could not create the initial commit.")
        IN  /\ CommitCreateStore(error)
            /\ IF throwOnGitError(error)
               THEN Throw(guards, handles, tr, loc)
               ELSE Leave(guards, handles,
                          Append(tr, Out("Created empty initial commit.", <<>>)), loc,
                          {"create_initial_commit"}, "exit")
    /\ UNCHANGED <<entry, caught>>

----------------------------------------------------------------------------
\* Specification

Init ==
    /\ entry \in {"main", "create_initial_commit"}
    /\ parents \in {p \in [1..MaxCommits -> ParentChoices(MaxCommits)] :
                        \A c \in 1..MaxCommits : p[c] \in ParentChoices(c)}
    /\ tree \in [1..MaxCommits -> TreeContents]
    /\ master \in BranchTips
    /\ pc = IF entry = "main" THEN "main_init" ELSE "cic_sig"
    /\ thrown = FALSE
    /\ caught = FALSE
    /\ guards = <<>>
    /\ handles = IF entry = "main" THEN <<>> ELSE <<Handle("caller", "repository", 0, <<>>)>>
    /\ loc = IF entry = "main" THEN NullLocals ELSE [NullLocals EXCEPT !.repo = 1]
    /\ trace = <<>>

Next ==
    \/ LibInit
    \/ MakePath
    \/ OpenRepo
    \/ Revparse
    \/ CommitLookup
    \/ LoopHead
    \/ ParentLookup
    \/ DiffTree0
    \/ DiffTree1
    \/ DiffMake
    \/ DiffPrint
    \/ SwapCommits
    \/ ReportDone
    \/ SignatureDefault
    \/ RepositoryIndex
    \/ IndexWriteTree
    \/ TreeLookup
    \/ CommitCreate
    \/ Catch

Spec == Init /\ [][Next]_vars

----------------------------------------------------------------------------
\* Reading the history

Idx == 1..Len(trace)

IsCall(i, fn) == trace[i].k = "call" /\ trace[i].fn = fn
IsOut(i, fn) == trace[i].k = "out" /\ trace[i].fn = fn

FreeFns == {"git_signature_free", "git_index_free", "git_tree_free", "git_diff_free",
            "git_object_free", "git_commit_free", "git_repository_free"}

IsFailure(i) == trace[i].k = "call" /\ trace[i].status < 0

\* The commits reported by "Commit <id> has <n> parents.", in order.
ReportedIdx == SelectSeq([i \in Idx |-> i], LAMBDA i : IsOut(i, "Commit"))
Reported == [n \in 1..Len(ReportedIdx) |-> trace[ReportedIdx[n]].arg[1]]

\* The commits handed to git_commit_lookup, in order.
LookupIdx == SelectSeq([i \in Idx |-> i], LAMBDA i : IsCall(i, "git_commit_lookup"))
LookedUp == [n \in 1..Len(LookupIdx) |-> trace[LookupIdx[n]].arg[1]]

DiffIdx == {i \in Idx : IsCall(i, "git_diff_tree_to_tree")}

DoneReported == \E i \in Idx : IsOut(i, "Done.")

IsPrefix(s, t) == Len(s) <= Len(t) /\ \A i \in 1..Len(s) : s[i] = t[i]

\* The first-parent chain of the store, from commit c down to a root.
RECURSIVE Chain(_)
Chain(c) ==
    IF c = 0 THEN <<>>
    ELSE IF Len(parents[c]) = 0 THEN <<c>>
    ELSE <<c>> \o Chain(Head(parents[c]))

InDumpDiff == pc \in {"diff_tree1", "diff_make", "diff_print"}

LoopPcs == {"loop", "parent_lookup", "diff_tree0", "diff_tree1", "diff_make",
            "diff_print", "swap"}
InLoop == pc \in LoopPcs

----------------------------------------------------------------------------
\* C1: the walk reports exactly the first-parent chain from the commit master
\* resolves to down to the root, each commit once and in that order, and looks
\* up no commit off that chain (no second parent of a merge).
C1_FirstParentChain ==
    entry = "main" =>
        LET chain == Chain(master)
            reported == Reported
            lookedUp == LookedUp
        IN  /\ IsPrefix(reported, chain)
            /\ IsPrefix(lookedUp, chain)
            /\ DoneReported => reported = chain
            /\ (pc = "exit" /\ \A i \in Idx : ~IsFailure(i) /\ trace[i].k # "throw")
                   => DoneReported

C1_Witness ==
    /\ entry = "main" /\ pc = "exit" /\ DoneReported
    /\ LET reported == Reported IN
       /\ Len(reported) = 2
       /\ \E n \in 1..Len(reported) :
            /\ Len(parents[reported[n]]) = 2
            /\ \A m \in 1..Len(reported) : reported[m] # parents[reported[n]][2]

\* Commits left on the first-parent chain, the current one included.
ChainLeft == IF loc.commit = 0 THEN 0 ELSE Len(Chain(handles[loc.commit].of))

PcRank ==
    CASE pc = "exit" -> 0
      [] pc = "catch" -> 1
      [] pc = "done" -> 2
      [] pc = "swap" -> 3
      [] pc = "diff_print" -> 4
      [] pc = "diff_make" -> 5
      [] pc = "diff_tree1" -> 6
      [] pc = "diff_tree0" -> 7
      [] pc = "parent_lookup" -> 8
      [] pc = "loop" -> 9
      [] pc = "cic_commit" -> 1
      [] pc = "cic_tree_lookup" -> 2
      [] pc = "cic_write_tree" -> 3
      [] pc = "cic_index" -> 4
      [] pc = "cic_sig" -> 5
      [] pc = "commit_lookup" -> 10
      [] pc = "revparse" -> 11
      [] pc = "open_repo" -> 12
      [] pc = "main_path" -> 13
      [] pc = "main_init" -> 14

Measure ==
    IF InLoop THEN 8 * ChainLeft + PcRank
    ELSE IF pc \in {"commit_lookup", "revparse", "open_repo", "main_path", "main_init"}
        THEN 8 * (Len(parents) + 1) + PcRank
    ELSE PcRank

\* C2: the walk terminates.  Every step of the program lowers a natural-number
\* measure (the steps left on the first-parent chain below the current commit),
\* and the program has a step to take until it exits, so it exits.  The loop is
\* left only by the break at a root commit, after which "Done." is reported, or
\* by a failure, and commit is never null while the loop runs.
C2_WalkTerminates ==
    /\ [](InLoop => loc.commit # 0)
    /\ [][(InLoop /\ ~InLoop') =>
            \/ thrown'
            \/ /\ pc' = "done"
               /\ trace'[Len(trace')].k = "out"
               /\ trace'[Len(trace')].fn = "Commit"
               /\ trace'[Len(trace')].arg[2] = 0]_vars
    /\ [][Measure' < Measure]_vars
    /\ [](pc # "exit" => ENABLED Next)
    /\ []((pc = "exit" /\ entry = "main") => (caught \/ DoneReported))

C2_Witness ==
    /\ entry = "main" /\ pc = "exit" /\ DoneReported /\ ~caught
    /\ Len(Reported) >= 2
    /\ \A i \in Idx : ~IsFailure(i)

\* C3: no diff is computed with a root commit as the newer side; a history of
\* a single root commit yields one commit report and no patch.
C3_RootHasNoDiff ==
    entry = "main" =>
        /\ InDumpDiff => Len(parents[handles[loc.commit1].of]) > 0
        /\ \A i \in DiffIdx : Len(parents[handles[trace[i].arg[2]].of]) > 0
        /\ (DoneReported /\ Len(parents[master]) = 0) =>
               /\ Reported = <<master>>
               /\ \A i \in Idx : ~IsCall(i, "git_commit_tree")
                                 /\ ~IsCall(i, "git_diff_tree_to_tree")
                                 /\ ~IsCall(i, "git_diff_print")
                                 /\ ~IsOut(i, "print_cb")

C3_Witness ==
    /\ entry = "main" /\ pc = "exit" /\ DoneReported
    /\ Len(parents[master]) = 0
    /\ Reported = <<master>>

----------------------------------------------------------------------------
\* The print_cb lines of a git_diff_print call at history index i are the
\* entries between the preceding library call and i.
PrevCall(i) == CHOOSE j \in 0..(i - 1) :
                  /\ j = 0 \/ trace[j].k = "call"
                  /\ \A m \in (j + 1)..(i - 1) : trace[m].k # "call"

\* C4: what print_cb writes for an added or removed line begins with the
\* line's change marker, '+' or '-', followed by the line's content.
C4_ChangedLinesMarked ==
    \A i \in Idx : IsCall(i, "git_diff_print") =>
        LET lines == handles[trace[i].arg[1]].lines
            first == PrevCall(i) + 1
        IN  \A n \in 1..(i - first) :
                lines[n].origin \in {"+", "-"} =>
                    trace[first + n - 1].arg = <<lines[n].origin>> \o lines[n].content

\* C5 as stated: every negative status, of any library call, is thrown to the
\* handler of main and keeps "Done." from being reported.
C5_EveryFailureThrows ==
    entry = "main" =>
        \A i \in Idx : IsFailure(i) => (thrown \/ caught) /\ ~DoneReported

\* A negative status handed to throwOnGitError.
IsThrowingFailure(i) == IsFailure(i) /\ trace[i].fn # "git_libgit2_shutdown"

\* C5, amended: a negative status of any call but git_libgit2_shutdown is
\* logged and thrown; after it the only library calls are releases of handles
\* and the library shutdown, no call is repeated, main's handler is reached and
\* "Done." is not reported.  A negative status of git_libgit2_shutdown is logged
\* and not thrown.  A non-negative status neither logs nor throws.
C5_FailureIsFatal ==
    /\ \A i \in Idx : IsThrowingFailure(i) =>
          /\ thrown \/ caught
          /\ i < Len(trace) /\ IsOut(i + 1, "ERROR")
          /\ \A j \in (i + 1)..Len(trace) :
                trace[j].k = "call" =>
                    trace[j].fn \in FreeFns \cup {"git_libgit2_shutdown"}
          /\ ~DoneReported
          /\ (entry = "main" /\ pc = "exit") => caught /\ IsOut(Len(trace), "Exception caught: ")
          /\ (entry # "main" /\ pc = "exit") => thrown
    /\ \A i \in Idx : (IsFailure(i) /\ ~IsThrowingFailure(i)) =>
          i < Len(trace) /\ IsOut(i + 1, "ERROR")
    /\ \A i \in Idx : IsOut(i, "ERROR") => i > 1 /\ IsFailure(i - 1)
    /\ (thrown \/ caught) =>
          \E i \in Idx : IsThrowingFailure(i) \/ trace[i].k = "throw"

C5_Witness ==
    /\ entry = "main" /\ pc = "exit" /\ caught
    /\ \E i \in Idx : IsCall(i, "git_diff_tree_to_tree") /\ IsFailure(i)
    /\ \E i \in Idx : IsCall(i, "git_libgit2_shutdown") /\ IsFailure(i)

\* C6: in create_initial_commit the ref changes only in the step where
\* git_commit_create succeeds, and then it points at the new commit, which has
\* no parents; a step in which a call fails leaves the ref as it was.
C6_RefUpdatedOnlyOnSuccess ==
    [][/\ master' # master =>
            /\ pc = "cic_commit"
            /\ \E i \in (Len(trace) + 1)..Len(trace') :
                  /\ trace'[i].k = "call" /\ trace'[i].fn = "git_commit_create"
                  /\ trace'[i].status >= 0
       /\ (\E i \in (Len(trace) + 1)..Len(trace') :
               trace'[i].k = "call" /\ trace'[i].status < 0)
            => master' = master /\ parents' = parents
       /\ (pc = "cic_commit" /\ ~thrown') =>
            /\ master' = Len(parents')
            /\ master' \notin DOMAIN parents
            /\ parents'[master'] = <<>>]_vars

C6_Witness ==
    /\ entry = "create_initial_commit" /\ pc = "exit" /\ ~thrown
    /\ master = MaxCommits + 1 /\ parents[master] = <<>>
    /\ \E i \in Idx : IsCall(i, "git_commit_create") /\ ~IsFailure(i)

\* The positions at which an operation is running.
OpPcs(op) ==
    IF op = "dumpDiff" THEN {"diff_tree1", "diff_make", "diff_print"}
    ELSE IF op = "findAllOnMaster"
        THEN {"commit_lookup", "loop", "parent_lookup", "diff_tree0", "diff_tree1",
              "diff_make", "diff_print", "swap", "done"}
    ELSE IF op = "create_initial_commit"
        THEN {"cic_index", "cic_write_tree", "cic_tree_lookup", "cic_commit"}
    ELSE IF op = "main"
        THEN {"revparse", "commit_lookup", "loop", "parent_lookup", "diff_tree0",
              "diff_tree1", "diff_make", "diff_print", "swap", "done"}
    ELSE {pc}

Running(op) == pc \in OpPcs(op)

\* C7: a handle that has not been released belongs to an operation that is
\* still running, so every handle an operation acquired is released when the
\* operation exits, by its end or by an exception.
C7_NoLeak ==
    \A h \in 1..Len(handles) : handles[h].frees = 0 => Running(handles[h].op)

C7_Witness ==
    /\ entry = "main" /\ pc = "exit" /\ caught
    /\ Len(handles) >= 7
    /\ \E i \in Idx : IsCall(i, "git_diff_print") /\ IsFailure(i)
    /\ \A h \in 1..Len(handles) : handles[h].frees = 1

\* The diffs computed between two history indices.
DiffsBetween(a, b) == {i \in DiffIdx : a < i /\ i < b}

\* C8: each reported commit with a parent gets exactly one diff, computed after
\* its report and before its first parent's report, from the first parent's tree
\* to the commit's tree; a finished walk of n commits computed n - 1 diffs;
\* lines only in the commit are added lines, lines only in the parent removed.
C8_OneDiffPerStep ==
    entry = "main" =>
        LET ridx == ReportedIdx
            reported == Reported
        IN  /\ \A n \in 1..Len(ridx) :
                  LET c == reported[n]
                      upto == IF n < Len(ridx) THEN ridx[n + 1] ELSE Len(trace) + 1
                      ds == DiffsBetween(ridx[n], upto)
                  IN  /\ Cardinality(ds) <= 1
                      /\ n < Len(ridx) => Cardinality(ds) = 1 /\ ~IsFailure(CHOOSE i \in ds : TRUE)
                      /\ Len(parents[c]) = 0 => ds = {}
                      /\ \A i \in ds :
                            /\ handles[trace[i].arg[1]].of = Head(parents[c])
                            /\ handles[trace[i].arg[2]].of = c
                            /\ ~IsFailure(i) =>
                                 LET old == tree[Head(parents[c])]
                                     new == tree[c]
                                     lines == handles[trace[i].ret].lines
                                     with(o) == {lines[m].content[1] :
                                                   m \in {q \in 1..Len(lines) : lines[q].origin = o}}
                                 IN  /\ with("+") = new \ old
                                     /\ with("-") = old \ new
            /\ \A i \in DiffIdx : Len(ridx) > 0 /\ ridx[1] < i
            /\ DoneReported =>
                  Cardinality({i \in DiffIdx : ~IsFailure(i)}) = Len(reported) - 1

C8_Witness ==
    /\ entry = "main" /\ pc = "exit" /\ DoneReported
    /\ Len(Reported) = 3
    /\ Cardinality(DiffIdx) = 2
    /\ \E i \in DiffIdx : \E m \in 1..Len(handles[trace[i].ret].lines) :
          handles[trace[i].ret].lines[m].origin = "+"

\* The history indices of the calls of a library function.
CallsOf(fn) == {i \in Idx : IsCall(i, fn)}

\* C9: git_libgit2_init is the first library call and nothing runs unless it
\* succeeded; when it succeeded the program exits having shut the library down
\* exactly once, after the repository was released and after every other call
\* and report of the walk; when it failed there is no open and no shutdown;
\* nothing uses the repository after git_repository_free.
C9_Lifecycle ==
    entry = "main" =>
        LET inits == CallsOf("git_libgit2_init")
            opens == CallsOf("git_repository_open")
            closes == CallsOf("git_repository_free")
            downs == CallsOf("git_libgit2_shutdown")
            initOk == \E i \in inits : ~IsFailure(i)
            openOk == \E i \in opens : ~IsFailure(i)
        IN  /\ Len(trace) > 0 => IsCall(1, "git_libgit2_init")
            /\ Cardinality(inits) <= 1
            /\ ~initOk => \A i \in Idx : trace[i].k = "call" => i = 1
            /\ Cardinality(downs) <= 1
            /\ Cardinality(closes) <= 1
            /\ pc = "exit" => Cardinality(downs) = (IF initOk THEN 1 ELSE 0)
            /\ pc = "exit" => Cardinality(closes) = (IF openOk THEN 1 ELSE 0)
            /\ \A d \in downs :
                  /\ openOk => \E c \in closes : c < d
                  /\ \A j \in (d + 1)..Len(trace) :
                        IsOut(j, "ERROR") \/ IsOut(j, "Exception caught: ")
            /\ \A c \in closes :
                  /\ handles[trace[c].arg[1]].kind = "repository"
                  /\ \A j \in (c + 1)..Len(trace) :
                        trace[j].k = "call" => trace[j].fn = "git_libgit2_shutdown"

C9_Witness ==
    /\ entry = "main" /\ pc = "exit" /\ caught
    /\ \E i \in Idx : IsCall(i, "git_commit_tree") /\ IsFailure(i)
    /\ \E d \in CallsOf("git_libgit2_shutdown") :
       \E c \in CallsOf("git_repository_free") : c < d

\* C10: no handle is passed to its free function more than once.
C10_NoDoubleFree ==
    \A h \in 1..Len(handles) : handles[h].frees <= 1

====
